---- MODULE Spec2Model ----
(***************************************************************************)
(* LinkedIn profile scraper: utils.py (URL validator, HTTP fetcher and     *)
(* static extractor, browser-driven extractor, orchestrator) and the part  *)
(* of main.py that calls it.                                               *)
(*                                                                         *)
(* Strings that the code inspects character by character (the URL) are     *)
(* sequences of one-character strings.  Texts that the code trims,         *)
(* lower-cases and searches are sequences of words.  Exception messages    *)
(* are sequences of parts, so that an f-string is a concatenation.         *)
(***************************************************************************)
EXTENDS Integers, Sequences, FiniteSets, TLC

VARIABLES
    pc,            \* control point of the running function
    stack,         \* control points at which the callers resume
    entry,         \* the function the environment called
    url,           \* the argument of the call
    ret,           \* what the last finished call handed to its caller
    driver,        \* the local `driver` of get_profile_data_with_selenium
    sel_exc,       \* exception caught at utils.py:417
    sel_ret,       \* value of the pending `return` while `finally` runs
    profile_data,  \* the record under construction
    absent,        \* fields whose element the browser did not find
    response,      \* the response of session.get
    scr_exc,       \* `e` caught at utils.py:527
    fb_exc,        \* `fallback_error` caught at utils.py:533
    launches,      \* webdriver.Chrome calls of this run
    gets,          \* session.get calls of this run
    selCalls,      \* get_profile_data_with_selenium calls of this run
    extCalls,      \* extract_profile_data calls of this run
    staticSteps,   \* static extraction steps executed on the response
    quits          \* driver.quit attempts of the current browser call

vars == <<pc, stack, entry, url, ret, driver, sel_exc, sel_ret, profile_data,
          absent, response, scr_exc, fb_exc, launches, gets, selCalls,
          extCalls, staticSteps, quits>>

(***************************************************************************)
(* Bounds of the explored inputs.                                          *)
(***************************************************************************)
MaxSlug == 2
MaxItems == 1
MaxElems == 2
MaxExpItems == 2

(***************************************************************************)
(* Characters                                                              *)
(***************************************************************************)
LowerChars == {"a","b","c","d","e","f","g","h","i","j","k","l","m",
               "n","o","p","q","r","s","t","u","v","w","x","y","z"}
UpperChars == {"A","B","C","D","E","F","G","H","I","J","K","L","M",
               "N","O","P","Q","R","S","T","U","V","W","X","Y","Z"}
DigitChars == {"0","1","2","3","4","5","6","7","8","9"}

\* the class [a-zA-Z0-9\-] of linkedin_pattern
SlugClass == LowerChars \cup UpperChars \cup DigitChars \cup {"-"}

\* the literal pieces of linkedin_pattern
LitHttp == <<"h","t","t","p">>
LitS == <<"s">>
LitColonSlashes == <<":","/","/">>
LitWww == <<"w","w","w",".">>
LitHostIn == <<"l","i","n","k","e","d","i","n",".","c","o","m","/","i","n","/">>
LitSlash == <<"/">>

\* lit occurs in s at position p
LitAt(s, p, lit) ==
    /\ p + Len(lit) - 1 <= Len(s)
    /\ \A k \in 1..Len(lit) : s[p + k - 1] = lit[k]

\* positions after matching the literal from one of the positions P
AfterLit(P, s, lit) == {p + Len(lit) : p \in {q \in P : LitAt(s, q, lit)}}

\* positions after matching (lit)? from one of the positions P
AfterOpt(P, s, lit) == P \cup AfterLit(P, s, lit)

\* positions after matching [a-zA-Z0-9\-]+ from one of the positions P
AfterSlug(P, s) ==
    {q \in 1..(Len(s) + 1) :
        \E p \in P : p < q /\ \A k \in p..(q - 1) : s[k] \in SlugClass}

\* `$` of Python's re without MULTILINE: at the end of the string, or just
\* before a newline that is the last character of the string
DollarAt(s, p) == p = Len(s) + 1 \/ (p = Len(s) /\ s[p] = "\n")

\* re.match(linkedin_pattern, url): the positions the pattern can reach
PatternEnds(s) ==
    AfterOpt(
      AfterSlug(
        AfterLit(
          AfterOpt(
            AfterLit(
              AfterOpt(AfterLit({1}, s, LitHttp), s, LitS),
              s, LitColonSlashes),
            s, LitWww),
          s, LitHostIn),
        s),
      s, LitSlash)

is_valid_linkedin_url(s) == \E p \in PatternEnds(s) : DollarAt(s, p)


(***************************************************************************)
(* URLs handed to the validator: every combination of these pieces.        *)
(***************************************************************************)
UrlLeads == {<<>>, <<" ">>}
UrlSchemes == {<<"h","t","t","p">>, <<"h","t","t","p","s">>, <<"f","t","p">>}
UrlWwws == {<<>>, <<"w","w","w",".">>, <<"w","w","w","x">>}
UrlHosts == {<<"l","i","n","k","e","d","i","n",".","c","o","m">>,
             <<"l","i","n","k","e","d","i","n","x","c","o","m">>}
UrlPaths == {<<"/","i","n","/">>, <<"/","u","p","/">>}
UrlSlugChars == {"a", "Z", "9", "-", "_"}
UrlSlugs == UNION {[1..n -> UrlSlugChars] : n \in 0..MaxSlug}
UrlSlashes == {<<>>, <<"/">>, <<"/","/">>}
UrlTrails == {<<>>, <<"\n">>, <<"?">>, <<"\n","\n">>}

Urls ==
    {l \o sc \o <<":","/","/">> \o w \o h \o p \o sl \o sh \o t :
        l \in UrlLeads, sc \in UrlSchemes, w \in UrlWwws, h \in UrlHosts,
        p \in UrlPaths, sl \in UrlSlugs, sh \in UrlSlashes, t \in UrlTrails}

\* URLs handed to the functions that go on to scrape: a profile URL, the
\* same followed by a newline, and the same followed by a query mark
RunUrls ==
    {<<"h","t","t","p","s">> \o <<":","/","/">> \o <<"w","w","w",".">> \o
     <<"l","i","n","k","e","d","i","n",".","c","o","m">> \o <<"/","i","n","/">> \o
     <<"a">> \o t :
        t \in {<<>>, <<"\n">>, <<"?">>}}

(***************************************************************************)
(* Texts: sequences of words; " " is a run of white space.                 *)
(***************************************************************************)
IsSpace(w) == w = " "

RECURSIVE LStrip(_)
LStrip(t) == IF t # <<>> /\ IsSpace(Head(t)) THEN LStrip(Tail(t)) ELSE t

RECURSIVE RStrip(_)
RStrip(t) ==
    IF t # <<>> /\ IsSpace(t[Len(t)]) THEN RStrip(SubSeq(t, 1, Len(t) - 1)) ELSE t

\* str.strip()
Strip(t) == RStrip(LStrip(t))

\* what a lookup in the page gives: an element with its text, or none
\* (the wait timed out, find_element raised)
Missing == [found |-> FALSE, text |-> <<>>]
Elem(t) == [found |-> TRUE, text |-> t]

(***************************************************************************)
(* Records (dict), exceptions and results                                  *)
(***************************************************************************)
EmptyDict == <<>>
Put(d, k, v) == (k :> v) @@ d
Has(d, k) == k \in DOMAIN d

Exc(t, m) == [type |-> t, msg |-> m]
NoExc == Exc("none", <<>>)
\* str(e)
Str(e) == e.msg
\* except requests.exceptions.RequestException
IsRequestException(e) == e.type \in {"ConnectionError", "HTTPError"}

NoRet == [kind |-> "none", val |-> <<>>]
Returned(v) == [kind |-> "return", val |-> v]
Raised(e) == [kind |-> "raise", val |-> e]

(***************************************************************************)
(* Calls and returns                                                       *)
(***************************************************************************)
\* call a function whose first control point is `callee`; the caller resumes
\* at `resume`
Call(callee, resume) ==
    /\ pc' = callee
    /\ stack' = Append(stack, resume)

\* hand `r` to the caller, or finish the run
Return(r) ==
    /\ ret' = r
    /\ IF stack = <<>>
       THEN pc' = "done" /\ stack' = stack
       ELSE pc' = stack[Len(stack)] /\ stack' = SubSeq(stack, 1, Len(stack) - 1)

(***************************************************************************)
(* get_profile_data_with_selenium                                          *)
(***************************************************************************)
LaunchErr == Exc("WebDriverException", <<"chromedriver not executable">>)
NavErr == Exc("WebDriverException", <<"net::ERR_NAME_NOT_RESOLVED">>)
BodyWaitErr == Exc("TimeoutException", <<"body wait timed out">>)
ScreenshotErr == Exc("WebDriverException", <<"invalid session id">>)

\* texts of the elements of the live page
PageTexts == {<<" ", "Ann", " ">>, <<" ">>}
ScalarLookups == {Missing} \cup {Elem(t) : t \in PageTexts}
\* the lookups tried for the headline and the about section
FewLookups == {Missing, Elem(<<"Ann", " ">>)}

\* an item of a list section: its two sub-elements
PairItems(a, b) ==
    [first : {Missing, Elem(<<" ", a>>)}, second : {Missing, Elem(<<b>>)}]
SkillItems == {Elem(<<"SQL", " ">>), Elem(<<" ">>)}
ItemSeqs(S) == UNION {[1..n -> S] : n \in 0..MaxItems}
\* a list section: not there, or there with its items
Sections(S) == {[found |-> FALSE, items |-> <<>>]} \cup
               {[found |-> TRUE, items |-> its] : its \in ItemSeqs(S)}

NotFound == <<"Not found">>
NoInfo(what) == << <<"No ", what, " information found">> >>
Unable(what) == << <<"Unable to retrieve ", what, " information">> >>

\* the `for item in ...` loops at utils.py:282, 317: an item whose role or
\* company lookup raises is skipped
RECURSIVE PairEntries(_, _)
PairEntries(items, sep) ==
    IF items = <<>> THEN <<>>
    ELSE LET it == Head(items)
             rest == PairEntries(Tail(items), sep)
         IN IF it.first.found /\ it.second.found
            THEN << Strip(it.first.text) \o <<sep>> \o Strip(it.second.text) >> \o rest
            ELSE rest

\* the loop at utils.py:355: a skill whose trimmed text is empty is skipped
RECURSIVE SkillEntries(_)
SkillEntries(items) ==
    IF items = <<>> THEN <<>>
    ELSE LET skill == Strip(Head(items).text)
             rest == SkillEntries(Tail(items))
         IN IF skill # <<>> THEN <<skill>> \o rest ELSE rest

\* the loop at utils.py:388: a language without its name is skipped, one
\* without a proficiency element gets the default
RECURSIVE LanguageEntries(_)
LanguageEntries(items) ==
    IF items = <<>> THEN <<>>
    ELSE LET it == Head(items)
             rest == LanguageEntries(Tail(items))
             proficiency == IF it.second.found THEN Strip(it.second.text)
                            ELSE <<"Proficiency not specified">>
         IN IF it.first.found
            THEN << Strip(it.first.text) \o <<" - ">> \o proficiency >> \o rest
            ELSE rest

\* the dict returned by the handler at utils.py:419
DegradedRecord(e) ==
    Put(Put(Put(Put(Put(EmptyDict,
        "name", <<"Error retrieving profile">>),
        "headline", <<"Error: ">> \o Str(e)),
        "experience", Unable("experience")),
        "education", Unable("education")),
        "skills", Unable("skills"))

selLocals == <<driver, sel_exc, sel_ret, profile_data, absent, quits>>
extLocals == <<response, staticSteps>>
scrLocals == <<scr_exc, fb_exc>>
callArgs == <<entry, url>>
counters == <<launches, gets, selCalls, extCalls>>

\* utils.py:178-197: the locals are unbound, the options are built
SelEnter ==
    /\ pc = "sel_enter"
    /\ pc' = "sel_launch"
    /\ driver' = "unbound"
    /\ sel_exc' = NoExc
    /\ sel_ret' = NoRet
    /\ profile_data' = EmptyDict
    /\ absent' = {}
    /\ quits' = 0
    /\ selCalls' = selCalls + 1
    /\ UNCHANGED <<stack, ret, extLocals, scrLocals, callArgs, launches, gets, extCalls>>

\* a step inside the `try` raises: control goes to the handler at line 417
SelRaise(e) ==
    /\ sel_exc' = e
    /\ pc' = "sel_except"

\* utils.py:200-204: webdriver.Chrome(...) binds `driver` or raises
SelLaunch ==
    /\ pc = "sel_launch"
    /\ launches' = launches + 1
    /\ \/ /\ driver' = "open"
          /\ pc' = "sel_get"
          /\ UNCHANGED sel_exc
       \/ /\ SelRaise(LaunchErr)
          /\ UNCHANGED driver
    /\ UNCHANGED <<stack, ret, sel_ret, profile_data, absent, quits, extLocals,
                   scrLocals, callArgs, gets, selCalls, extCalls>>

\* utils.py:206: driver.get(url)
SelGet ==
    /\ pc = "sel_get"
    /\ \/ pc' = "sel_wait_body" /\ UNCHANGED sel_exc
       \/ SelRaise(NavErr)
    /\ UNCHANGED <<stack, ret, driver, sel_ret, profile_data, absent, quits,
                   extLocals, scrLocals, callArgs, counters>>

\* utils.py:209-216: wait for <body>, then profile_data = {}
SelWaitBody ==
    /\ pc = "sel_wait_body"
    /\ \/ /\ pc' = "sel_name"
          /\ profile_data' = EmptyDict
          /\ UNCHANGED sel_exc
       \/ /\ SelRaise(BodyWaitErr)
          /\ UNCHANGED profile_data
    /\ UNCHANGED <<stack, ret, driver, sel_ret, absent, quits,
                   extLocals, scrLocals, callArgs, counters>>

\* what a field step leaves alone
SelFieldFrame ==
    UNCHANGED <<stack, ret, driver, sel_exc, sel_ret, quits,
                extLocals, scrLocals, callArgs, counters>>

\* a scalar field: the element's trimmed text, or the placeholder when the
\* lookup raises
SelScalar(field, lookup) ==
    /\ profile_data' = Put(profile_data, field,
                           IF lookup.found THEN Strip(lookup.text) ELSE NotFound)
    /\ absent' = IF lookup.found THEN absent ELSE absent \cup {field}

\* what the skills step would do if it left the key out for a missing section
SelListOmitting(field, section, entries) ==
    /\ profile_data' = IF section.found
                       THEN Put(profile_data, field,
                                IF entries # <<>> THEN entries ELSE NoInfo(field))
                       ELSE profile_data
    /\ absent' = IF section.found THEN absent ELSE absent \cup {field}

\* a list field: the entries, or the placeholder when the section lookup
\* raises or no entry was collected
SelList(field, section, entries) ==
    /\ profile_data' = Put(profile_data, field,
                           IF section.found /\ entries # <<>> THEN entries
                           ELSE NoInfo(field))
    /\ absent' = IF section.found THEN absent ELSE absent \cup {field}

\* utils.py:218-230
SelName ==
    /\ pc = "sel_name"
    /\ \E lookup \in ScalarLookups : SelScalar("name", lookup)
    /\ pc' = "sel_headline"
    /\ SelFieldFrame

\* utils.py:232-244
SelHeadline ==
    /\ pc = "sel_headline"
    /\ \E lookup \in FewLookups : SelScalar("headline", lookup)
    /\ pc' = "sel_about"
    /\ SelFieldFrame

\* utils.py:246-264: the "show more" button may be missing, which is ignored
SelAbout ==
    /\ pc = "sel_about"
    /\ \E showMore \in BOOLEAN, lookup \in FewLookups : SelScalar("about", lookup)
    /\ pc' = "sel_experience"
    /\ SelFieldFrame

\* utils.py:266-307
SelExperience ==
    /\ pc = "sel_experience"
    /\ \E section \in Sections(PairItems("Dev", "Acme")) :
          SelList("experience", section, PairEntries(section.items, " at "))
    /\ pc' = "sel_education"
    /\ SelFieldFrame

\* utils.py:309-329
SelEducation ==
    /\ pc = "sel_education"
    /\ \E section \in Sections(PairItems("MIT", "BSc")) :
          SelList("education", section, PairEntries(section.items, " - "))
    /\ pc' = "sel_skills"
    /\ SelFieldFrame

\* utils.py:331-371
SelSkills ==
    /\ pc = "sel_skills"
    /\ \E showMore \in BOOLEAN, section \in Sections(SkillItems) :
          SelList("skills", section, SkillEntries(section.items))
    /\ pc' = "sel_languages"
    /\ SelFieldFrame

\* utils.py:373-409: no default value is set for languages
SelLanguages ==
    /\ pc = "sel_languages"
    /\ \E section \in Sections(PairItems("French", "Native")) :
          LET languages == LanguageEntries(section.items)
          IN /\ profile_data' = IF section.found /\ languages # <<>>
                                THEN Put(profile_data, "languages", languages)
                                ELSE profile_data
             /\ absent' = IF section.found THEN absent ELSE absent \cup {"languages"}
    /\ pc' = "sel_screenshot"
    /\ SelFieldFrame

\* utils.py:411-415: save_screenshot, then `return profile_data`
SelScreenshot ==
    /\ pc = "sel_screenshot"
    /\ \/ /\ sel_ret' = Returned(profile_data)
          /\ pc' = "sel_finally"
          /\ UNCHANGED sel_exc
       \/ /\ SelRaise(ScreenshotErr)
          /\ UNCHANGED sel_ret
    /\ UNCHANGED <<stack, ret, driver, profile_data, absent, quits,
                   extLocals, scrLocals, callArgs, counters>>

\* what the handler would do if it re-raised
SelExceptReraising ==
    /\ pc = "sel_except"
    /\ sel_ret' = Raised(sel_exc)
    /\ pc' = "sel_finally"
    /\ UNCHANGED <<stack, ret, driver, sel_exc, profile_data, absent, quits,
                   extLocals, scrLocals, callArgs, counters>>

\* utils.py:417-425: `except Exception as e: return {...}`
SelExcept ==
    /\ pc = "sel_except"
    /\ sel_ret' = Returned(DegradedRecord(sel_exc))
    /\ pc' = "sel_finally"
    /\ UNCHANGED <<stack, ret, driver, sel_exc, profile_data, absent, quits,
                   extLocals, scrLocals, callArgs, counters>>

\* what the `finally` would do if it called quit only after a clean run
SelFinallySkipping ==
    /\ pc = "sel_finally"
    /\ IF driver = "open" /\ sel_exc = NoExc
       THEN /\ quits' = quits + 1
            /\ driver' \in {"quit", "quit_failed"}
       ELSE UNCHANGED <<driver, quits>>
    /\ Return(sel_ret)
    /\ UNCHANGED <<sel_exc, sel_ret, profile_data, absent,
                   extLocals, scrLocals, callArgs, counters>>

\* utils.py:426-430: `finally: try: driver.quit() except: pass`; with `driver`
\* unbound the NameError is swallowed, and so is an error of quit itself;
\* then the pending return value goes to the caller
SelFinally ==
    /\ pc = "sel_finally"
    /\ IF driver = "open"
       THEN /\ quits' = quits + 1
            /\ driver' \in {"quit", "quit_failed"}
       ELSE UNCHANGED <<driver, quits>>
    /\ Return(sel_ret)
    /\ UNCHANGED <<sel_exc, sel_ret, profile_data, absent,
                   extLocals, scrLocals, callArgs, counters>>

(***************************************************************************)
(* The fetched page of the static path                                     *)
(***************************************************************************)
\* utils.py:462
MinContentLength == 1000
\* utils.py:452
AntiBotStatus == 999

\* utils.py:470
error_indicators == <<"captcha", "please verify", "interrupted", "unavailable">>

\* str.lower() on a word
Lower(w) ==
    CASE w = "Please Verify" -> "please verify"
      [] w = "CAPTCHA" -> "captcha"
      [] w = "Ann" -> "ann"
      [] w = "Bob" -> "bob"
      [] w = "Dev" -> "dev"
      [] w = "Lead" -> "lead"
      [] w = "Acme" -> "acme"
      [] OTHER -> w

\* elements of a page: the selector that finds the element, and its text
StaticSels == {"h1.text-heading-xlarge", "h1.top-card-layout__title",
               "div.text-body-medium", "h2.top-card-layout__headline",
               "div.about-section", "p"}
StaticTexts == {<<" ", "Ann", " ">>, <<"Bob">>, <<" ">>, <<"Please Verify">>, <<"CAPTCHA">>}
StaticElems == [sel : StaticSels, text : StaticTexts]
ElemSeqs == UNION {[1..n -> StaticElems] : n \in 0..MaxElems}

\* soup.get_text(): the texts of the elements in document order
RECURSIVE get_text(_)
get_text(elems) ==
    IF elems = <<>> THEN <<>> ELSE Head(elems).text \o get_text(Tail(elems))

\* number of characters of a text
RECURSIVE TextLen(_)
TextLen(t) == IF t = <<>> THEN 0 ELSE Len(Head(t)) + TextLen(Tail(t))

\* the experience section of a page: not there, or there with its items,
\* each with a role and a company sub-element or without
StaticItems == [first : {Missing, Elem(<<" ", "Dev">>), Elem(<<"Lead">>)},
                second : {Missing, Elem(<<"Acme", " ">>)}]
NoSection == [found |-> FALSE, items |-> <<>>]
StaticSections ==
    {[found |-> TRUE, items |-> its] :
        its \in UNION {[1..n -> StaticItems] : n \in 0..MaxExpItems}}

\* the texts of the sub-elements of the items, in document order
RECURSIVE ItemsText(_)
ItemsText(items) ==
    IF items = <<>> THEN <<>>
    ELSE Head(items).first.text \o Head(items).second.text \o ItemsText(Tail(items))

\* the whole text of a page
DocText(doc) == get_text(doc.elems) \o ItemsText(doc.exp.items)

\* a body is at least as long as its visible text; the pages with an
\* experience section have at most one other element
BodyLens == {0, MinContentLength - 1, MinContentLength, MinContentLength + 1}
PlainDocs == [len : BodyLens, elems : ElemSeqs, exp : {NoSection}]
ExpDocs == [len : BodyLens,
            elems : {<<>>, <<[sel |-> "h1.text-heading-xlarge", text |-> <<"Bob">>]>>},
            exp : StaticSections]
Docs == {d \in PlainDocs \cup ExpDocs : d.len >= TextLen(DocText(d))}
EmptyDoc == [len |-> 0, elems |-> <<>>, exp |-> NoSection]
LongDoc == [len |-> MinContentLength + 1,
            elems |-> <<[sel |-> "h1.text-heading-xlarge", text |-> <<"Ann">>]>>,
            exp |-> NoSection]

Responses ==
    {[status |-> 200, doc |-> d] : d \in Docs} \cup
    {[status |-> st, doc |-> d] : st \in {404, AntiBotStatus}, d \in {EmptyDoc, LongDoc}}
NoResponse == [status |-> 0, doc |-> EmptyDoc]

\* the page text without the lower()
page_textAsIs(doc) == DocText(doc)

\* page_text = soup.get_text().lower()
page_text(doc) == [i \in 1..Len(DocText(doc)) |-> Lower(DocText(doc)[i])]

\* `indicator in page_text`
Contains(text, indicator) == \E i \in 1..Len(text) : text[i] = indicator

\* the loop at utils.py:472: the index of the first indicator of the list
\* that the page text contains, 0 if there is none
FirstIndicator(text) ==
    LET hits == {i \in 1..Len(error_indicators) : Contains(text, error_indicators[i])}
    IN IF hits = {} THEN 0 ELSE CHOOSE i \in hits : \A j \in hits : i <= j

\* soup.select_one(selectors): the first element in document order that one
\* of the selectors finds
RECURSIVE select_one(_, _)
select_one(elems, sels) ==
    IF elems = <<>> THEN Missing
    ELSE IF Head(elems).sel \in sels THEN Elem(Head(elems).text)
    ELSE select_one(Tail(elems), sels)

\* utils.py:479-488: the name selectors in priority order; a selector whose
\* first element has only white space is passed over
name_selectors == <<"h1.text-heading-xlarge", "h1.top-card-layout__title",
                    "h1.basic-info__name">>
RECURSIVE ExtractName(_, _, _)
ExtractName(elems, i, data) ==
    IF i > Len(name_selectors) THEN data
    ELSE LET name_elem == select_one(elems, {name_selectors[i]})
         IN IF name_elem.found /\ Strip(name_elem.text) # <<>>
            THEN Put(data, "name", Strip(name_elem.text))
            ELSE ExtractName(elems, i + 1, data)

headline_selectors == {"div.text-body-medium", "h2.top-card-layout__headline",
                       "div.basic-info__headline"}
about_selectors == {"div.about-section", "div.summary-section"}

\* utils.py:490-500: `if elem:` then the trimmed text, empty or not
ExtractScalar(elems, sels, field, data) ==
    LET elem == select_one(elems, sels)
    IN IF elem.found THEN Put(data, field, Strip(elem.text)) ELSE data

\* utils.py:477-500 of the effective (second) definition
ExtractFields(elems) ==
    ExtractScalar(elems, about_selectors, "about",
        ExtractScalar(elems, headline_selectors, "headline",
            ExtractName(elems, 1, EmptyDict)))

\* utils.py:132-150 of the first definition, which the second one replaces:
\* an item counts when it has both a role and a company sub-element, and the
\* key is set when at least one item counted
ExtractExperience(exp, data) ==
    LET experiences == PairEntries(exp.items, " at ")
    IN IF exp.found /\ experiences # <<>>
       THEN Put(data, "experience", experiences)
       ELSE data

\* utils.py:107-150 of the first definition
ExtractFieldsFirstDefinition(doc) ==
    ExtractExperience(doc.exp, ExtractFields(doc.elems))

(***************************************************************************)
(* extract_profile_data (the second definition, utils.py:432, which is     *)
(* the one the module ends up with)                                        *)
(***************************************************************************)
ConnErr == Exc("ConnectionError", <<"connection timed out">>)
HTTPErr == Exc("HTTPError", <<"404 Client Error">>)

\* utils.py:511-516: a RequestException is re-raised with a prefix, any other
\* exception with its own message
ExtHandler(e) ==
    Raised(Exc("Exception",
               IF IsRequestException(e)
               THEN <<"Failed to access profile: ">> \o Str(e)
               ELSE Str(e)))

\* utils.py:432-450: session.get(url, timeout=30)
ExtFetch ==
    /\ pc = "ext_enter"
    /\ extCalls' = extCalls + 1
    /\ gets' = gets + 1
    /\ staticSteps' = 0
    /\ \/ /\ response' = NoResponse
          /\ Return(ExtHandler(ConnErr))
       \/ /\ response' \in Responses
          /\ pc' = "ext_status"
          /\ UNCHANGED <<stack, ret>>
    /\ UNCHANGED <<selLocals, scrLocals, callArgs, launches, selCalls>>

\* what the status step would do if 999 were an error like any other
ExtStatusRaising ==
    /\ pc = "ext_status"
    /\ IF response.status >= 400
       THEN Return(ExtHandler(HTTPErr))
       ELSE pc' = "ext_length" /\ UNCHANGED <<stack, ret>>
    /\ UNCHANGED <<selLocals, extLocals, scrLocals, callArgs, counters>>

\* utils.py:452-456: 999 goes to the browser; raise_for_status raises for
\* 4xx and 5xx
ExtStatus ==
    /\ pc = "ext_status"
    /\ IF response.status = AntiBotStatus
       THEN Call("sel_enter", "ext_ret999") /\ UNCHANGED ret
       ELSE IF response.status >= 400 /\ response.status < 600
       THEN Return(ExtHandler(HTTPErr))
       ELSE pc' = "ext_length" /\ UNCHANGED <<stack, ret>>
    /\ UNCHANGED <<selLocals, extLocals, scrLocals, callArgs, counters>>

\* utils.py:454: `return get_profile_data_with_selenium(url)` inside the try
ExtReturn999 ==
    /\ pc = "ext_ret999"
    /\ IF ret.kind = "raise" THEN Return(ExtHandler(ret.val)) ELSE Return(ret)
    /\ UNCHANGED <<selLocals, extLocals, scrLocals, callArgs, counters>>

\* what the length step would do with a threshold that is one too low
ExtLengthLenient ==
    /\ pc = "ext_length"
    /\ staticSteps' = staticSteps + 1
    /\ IF response.doc.len < MinContentLength - 1
       THEN Return(ExtHandler(Exc("Exception", <<"Invalid response content">>)))
       ELSE pc' = "ext_indicators" /\ UNCHANGED <<stack, ret>>
    /\ UNCHANGED <<selLocals, response, scrLocals, callArgs, counters>>

\* utils.py:458-464
ExtLength ==
    /\ pc = "ext_length"
    /\ staticSteps' = staticSteps + 1
    /\ IF response.doc.len < MinContentLength
       THEN Return(ExtHandler(Exc("Exception", <<"Invalid response content">>)))
       ELSE pc' = "ext_indicators" /\ UNCHANGED <<stack, ret>>
    /\ UNCHANGED <<selLocals, response, scrLocals, callArgs, counters>>

\* the message raised at utils.py:475
AccessRestricted(i) ==
    Exc("Exception", <<"Access restricted: ", error_indicators[i], " check required">>)

\* utils.py:466-475
ExtIndicators ==
    /\ pc = "ext_indicators"
    /\ staticSteps' = staticSteps + 1
    /\ LET found == FirstIndicator(page_text(response.doc))
       IN IF found # 0
          THEN Return(ExtHandler(AccessRestricted(found)))
          ELSE pc' = "ext_fields" /\ UNCHANGED <<stack, ret>>
    /\ UNCHANGED <<selLocals, response, scrLocals, callArgs, counters>>

\* what the last step would do without the test for an empty dict
ExtFieldsUnchecked ==
    /\ pc = "ext_fields"
    /\ staticSteps' = staticSteps + 1
    /\ Return(Returned(ExtractFields(response.doc.elems)))
    /\ UNCHANGED <<selLocals, response, scrLocals, callArgs, counters>>

\* utils.py:477-509
ExtFields ==
    /\ pc = "ext_fields"
    /\ staticSteps' = staticSteps + 1
    /\ LET data == ExtractFields(response.doc.elems)
       IN IF data = EmptyDict
          THEN Return(ExtHandler(Exc("Exception", <<"Failed to extract any profile data">>)))
          ELSE Return(Returned(data))
    /\ UNCHANGED <<selLocals, response, scrLocals, callArgs, counters>>

(***************************************************************************)
(* scrape_linkedin_profile                                                 *)
(***************************************************************************)
InvalidUrl == Exc("Exception", <<"Invalid LinkedIn profile URL">>)

\* what the entry would do without the validation
ScrEnterUnchecked ==
    /\ pc = "scr_enter"
    /\ Call("sel_enter", "scr_try") /\ UNCHANGED ret
    /\ UNCHANGED <<selLocals, extLocals, scrLocals, callArgs, counters>>

\* utils.py:518-526
ScrEnter ==
    /\ pc = "scr_enter"
    /\ IF ~is_valid_linkedin_url(url)
       THEN Return(Raised(InvalidUrl))
       ELSE Call("sel_enter", "scr_try") /\ UNCHANGED ret
    /\ UNCHANGED <<selLocals, extLocals, scrLocals, callArgs, counters>>

\* utils.py:526-532: return what the browser path returned, or catch its
\* exception as `e` and call the requests-based path
ScrTry ==
    /\ pc = "scr_try"
    /\ IF ret.kind = "raise"
       THEN /\ scr_exc' = ret.val
            /\ Call("ext_enter", "scr_fallback")
            /\ UNCHANGED ret
       ELSE /\ Return(ret)
            /\ UNCHANGED scr_exc
    /\ UNCHANGED <<selLocals, extLocals, fb_exc, callArgs, counters>>

\* utils.py:532-535: return what the fallback returned, or catch its
\* exception as `fallback_error` and raise with the message of `e`
ScrFallback ==
    /\ pc = "scr_fallback"
    /\ IF ret.kind = "raise"
       THEN /\ fb_exc' = ret.val
            /\ Return(Raised(Exc("Exception",
                   <<"Failed to extract profile data: ">> \o Str(scr_exc))))
       ELSE /\ Return(ret)
            /\ UNCHANGED fb_exc
    /\ UNCHANGED <<selLocals, extLocals, scr_exc, callArgs, counters>>

(***************************************************************************)
(* The calls of the environment                                            *)
(***************************************************************************)
Idle == pc = "idle"

\* utils.py:17-20 called on its own
CallValidate ==
    /\ Idle
    /\ \E u \in Urls :
          /\ url' = u
          /\ Return(Returned(is_valid_linkedin_url(u)))
    /\ entry' = "is_valid_linkedin_url"
    /\ UNCHANGED <<selLocals, extLocals, scrLocals, counters>>

CallScrape ==
    /\ Idle
    /\ url' \in RunUrls
    /\ entry' = "scrape_linkedin_profile"
    /\ pc' = "scr_enter"
    /\ UNCHANGED <<stack, ret, selLocals, extLocals, scrLocals, counters>>

CallExtract ==
    /\ Idle
    /\ url' \in RunUrls
    /\ entry' = "extract_profile_data"
    /\ pc' = "ext_enter"
    /\ UNCHANGED <<stack, ret, selLocals, extLocals, scrLocals, counters>>

CallSelenium ==
    /\ Idle
    /\ url' \in RunUrls
    /\ entry' = "get_profile_data_with_selenium"
    /\ pc' = "sel_enter"
    /\ UNCHANGED <<stack, ret, selLocals, extLocals, scrLocals, counters>>

\* main.py:38-61: an empty input does nothing, an invalid one shows an
\* error, a valid one is scraped
UISubmit ==
    /\ Idle
    /\ \E u \in RunUrls \cup {<<>>} :
          /\ url' = u
          /\ IF u = <<>> \/ ~is_valid_linkedin_url(u)
             THEN pc' = "done" /\ UNCHANGED stack
             ELSE Call("scr_enter", "ui_show")
    /\ entry' = "main"
    /\ UNCHANGED <<ret, selLocals, extLocals, scrLocals, counters>>

\* main.py:63-166: the record is shown, or the except branch shows the error
UIShow ==
    /\ pc = "ui_show"
    /\ pc' = "done"
    /\ UNCHANGED <<stack, ret, selLocals, extLocals, scrLocals, callArgs, counters>>

\* utils.py:178-197 lie outside the `try`: an exception raised there is the
\* only one that leaves get_profile_data_with_selenium
PreambleErr == Exc("Exception", <<"browser options rejected">>)
SelPreambleRaises ==
    /\ pc = "sel_enter"
    /\ selCalls' = selCalls + 1
    /\ Return(Raised(PreambleErr))
    /\ UNCHANGED <<selLocals, extLocals, scrLocals, callArgs, launches, gets, extCalls>>

Init ==
    /\ pc = "idle"
    /\ stack = <<>>
    /\ entry = "none"
    /\ url = <<>>
    /\ ret = NoRet
    /\ driver = "unbound"
    /\ sel_exc = NoExc
    /\ sel_ret = NoRet
    /\ profile_data = EmptyDict
    /\ absent = {}
    /\ response = NoResponse
    /\ scr_exc = NoExc
    /\ fb_exc = NoExc
    /\ launches = 0
    /\ gets = 0
    /\ selCalls = 0
    /\ extCalls = 0
    /\ staticSteps = 0
    /\ quits = 0

Next ==
    \/ CallValidate \/ CallScrape \/ CallExtract \/ CallSelenium
    \/ UISubmit \/ UIShow
    \/ ScrEnter \/ ScrTry
    \/ SelEnter \/ SelLaunch \/ SelGet \/ SelWaitBody
    \/ SelName \/ SelHeadline \/ SelAbout \/ SelExperience \/ SelEducation
    \/ SelSkills \/ SelLanguages \/ SelScreenshot \/ SelExcept \/ SelFinally
    \/ ExtFetch \/ ExtStatus \/ ExtReturn999 \/ ExtLength \/ ExtIndicators
    \/ ExtFields

Spec == Init /\ [][Next]_vars

\* the orchestrator with a browser extractor that lets an exception out
NextOrch == Next \/ SelPreambleRaises \/ ScrFallback

SpecOrch == Init /\ [][NextOrch]_vars

(***************************************************************************)
(* Properties                                                              *)
(***************************************************************************)
SelBody == {"sel_get", "sel_wait_body", "sel_name", "sel_headline", "sel_about",
            "sel_experience", "sel_education", "sel_skills", "sel_languages",
            "sel_screenshot", "sel_except", "sel_finally"}

\* get_profile_data_with_selenium has just handed its result to its caller
SelReturned ==
    \/ pc \in {"scr_try", "ext_ret999"}
    \/ pc = "done" /\ entry = "get_profile_data_with_selenium"

\* a run of scrape_linkedin_profile (called directly or by main.py) is over
ScrapeDone ==
    /\ pc = "done"
    /\ \/ entry = "scrape_linkedin_profile"
       \/ entry = "main" /\ ret # NoRet

\* the browser attempt failed with an exception
BrowserFailed == sel_exc # NoExc

\* m occurs in message w as a run of consecutive parts
IsInfix(m, w) ==
    \E i \in 0..(Len(w) - Len(m)) : \A k \in 1..Len(m) : w[i + k] = m[k]

\* C1: in a run of scrape_linkedin_profile on a valid URL in which the
\* browser-driven extractor failed with an exception (driver launch,
\* navigation, body wait, extraction), extract_profile_data was invoked.
C1_FallbackOnBrowserFailure ==
    (ScrapeDone /\ is_valid_linkedin_url(url) /\ BrowserFailed) => extCalls >= 1

\* C2: scrape_linkedin_profile with a URL that fails is_valid_linkedin_url
\* raises "Invalid LinkedIn profile URL" as its first step, with no browser
\* launch and no HTTP request in the run; main.py never calls it for such a URL.
C2_InvalidUrlFailsFast ==
    /\ (entry = "scrape_linkedin_profile" /\ ~is_valid_linkedin_url(url)) =>
          /\ launches = 0 /\ gets = 0 /\ selCalls = 0 /\ extCalls = 0
          /\ \/ pc = "scr_enter"
             \/ pc = "done" /\ ret.kind = "raise" /\ ret.val = InvalidUrl
    /\ (entry = "main" /\ ~is_valid_linkedin_url(url)) =>
          /\ pc = "done" /\ ret = NoRet
          /\ launches = 0 /\ gets = 0 /\ selCalls = 0 /\ extCalls = 0

C2_Witness ==
    /\ entry = "scrape_linkedin_profile"
    /\ ~is_valid_linkedin_url(url)
    /\ pc = "done"
    /\ ret.kind = "raise"

\* C3: a finished run of scrape_linkedin_profile on a valid URL started no
\* strategy more than once, ended in a return or one raise, and, when the
\* browser attempt failed, made the fallback attempt exactly once.
C3_SingleFallbackHop ==
    (ScrapeDone /\ is_valid_linkedin_url(url)) =>
        /\ launches <= 1 /\ gets <= 1
        /\ ret.kind \in {"return", "raise"}
        /\ BrowserFailed => extCalls = 1

\* C4: when both the browser attempt and the fallback raised, the message of
\* the exception that scrape_linkedin_profile raises contains the message of
\* the browser failure and the message of the fallback failure.
C4_CombinedMessage ==
    (ScrapeDone /\ scr_exc # NoExc /\ fb_exc # NoExc) =>
        /\ ret.kind = "raise"
        /\ IsInfix(Str(scr_exc), Str(ret.val))
        /\ IsInfix(Str(fb_exc), Str(ret.val))

\* C5: when driver launch, navigation or the body wait raised,
\* get_profile_data_with_selenium returns (does not raise) the record with
\* name 'Error retrieving profile', headline 'Error: <message>' and the
\* one-element 'Unable to retrieve ...' lists.
C5_DegradedRecord ==
    (SelReturned /\ sel_exc \in {LaunchErr, NavErr, BodyWaitErr}) =>
        /\ ret.kind = "return"
        /\ DOMAIN ret.val = {"name", "headline", "experience", "education", "skills"}
        /\ ret.val["name"] = <<"Error retrieving profile">>
        /\ ret.val["headline"] = <<"Error: ">> \o sel_exc.msg
        /\ ret.val["experience"] = << <<"Unable to retrieve ", "experience", " information">> >>
        /\ ret.val["education"] = << <<"Unable to retrieve ", "education", " information">> >>
        /\ ret.val["skills"] = << <<"Unable to retrieve ", "skills", " information">> >>

C5_Witness ==
    /\ SelReturned
    /\ sel_exc = NavErr
    /\ ret.kind = "return"
    /\ ret.val["headline"] = <<"Error: ", "net::ERR_NAME_NOT_RESOLVED">>

\* C6: a browser is open only inside get_profile_data_with_selenium; when the
\* function has exited, quit was attempted once on the browser it acquired,
\* whichever step failed, and the exit is a return, never an error of the
\* release step, also when no browser was acquired.
C6_BrowserReleased ==
    /\ driver = "open" => pc \in SelBody
    /\ SelReturned =>
          /\ ret.kind = "return"
          /\ driver \in {"unbound", "quit", "quit_failed"}
          /\ driver = "unbound" <=> sel_exc = LaunchErr
          /\ quits = (IF driver = "unbound" THEN 0 ELSE 1)

C6_Witness ==
    /\ SelReturned
    /\ sel_exc = BodyWaitErr
    /\ driver = "quit_failed"
    /\ quits = 1
    /\ ret.kind = "return"

\* the placeholder of a field of the browser-driven extractor
Placeholder(f) ==
    IF f \in {"name", "headline", "about"}
    THEN <<"Not found">>
    ELSE << <<"No ", f, " information found">> >>

PlaceholderFields == {"name", "headline", "about", "experience", "education", "skills"}

\* C7 as claimed: every recognized field, languages included, whose element
\* was absent is in the returned record with its placeholder.
C7_PlaceholderEveryField ==
    SelReturned =>
        \A f \in PlaceholderFields \cup {"languages"} :
            f \in absent =>
                /\ ret.kind = "return"
                /\ Has(ret.val, f)
                /\ ret.val[f] = Placeholder(f)

\* C7 as amended: when the extraction ran to its `return profile_data`, each
\* of name, headline, about, experience, education, skills whose element was
\* absent is in the record with its placeholder, all six keys are present,
\* and languages is left out when its section is absent.
C7_PlaceholderSixFields ==
    (SelReturned /\ ~BrowserFailed) =>
        /\ ret.kind = "return"
        /\ PlaceholderFields \subseteq DOMAIN ret.val
        /\ \A f \in PlaceholderFields : f \in absent => ret.val[f] = Placeholder(f)
        /\ "languages" \in absent => ~Has(ret.val, "languages")

C7_Witness ==
    /\ SelReturned
    /\ ~BrowserFailed
    /\ {"skills", "name", "languages"} \subseteq absent
    /\ ret.val["skills"] = << <<"No ", "skills", " information found">> >>
    /\ ret.val["name"] = <<"Not found">>
    /\ ~Has(ret.val, "languages")

\* a call of extract_profile_data by the environment is over
ExtractDone == pc = "done" /\ entry = "extract_profile_data"

\* C8: when the fetch returned status 999, no static extraction step runs on
\* that response, the browser path is invoked, and the call ends with the
\* browser path's record, not with an exception.
C8_AntiBotRoutesToBrowser ==
    response.status = AntiBotStatus =>
        /\ staticSteps = 0
        /\ pc # "ext_status" => (pc = "sel_enter" \/ selCalls >= 1)
        /\ ExtractDone => (ret.kind = "return" /\ selCalls = 1 /\ launches = 1)

C8_Witness ==
    /\ ExtractDone
    /\ is_valid_linkedin_url(url)
    /\ response.status = AntiBotStatus
    /\ response.doc = LongDoc
    /\ ret.kind = "return"
    /\ selCalls = 1

\* the shape (http|https)://(www.)?linkedin.com/in/<slug>(/)? of the whole string
HasShape(s) ==
    \E scheme \in {<<"h","t","t","p">>, <<"h","t","t","p","s">>},
       www \in {<<>>, <<"w","w","w",".">>},
       slash \in {<<>>, <<"/">>},
       n \in 1..Len(s) :
        LET head == scheme \o <<":","/","/">> \o www \o
                    <<"l","i","n","k","e","d","i","n",".","c","o","m","/","i","n","/">>
        IN /\ Len(s) = Len(head) + n + Len(slash)
           /\ SubSeq(s, 1, Len(head)) = head
           /\ \A k \in (Len(head) + 1)..(Len(head) + n) : s[k] \in SlugClass
           /\ SubSeq(s, Len(head) + n + 1, Len(s)) = slash

\* C9: is_valid_linkedin_url(s) is true exactly when the whole of s has the
\* shape; a string with an extra trailing or leading character gives false.
C9_ValidIffShape ==
    (pc = "done" /\ entry = "is_valid_linkedin_url") => (ret.val <=> HasShape(url))

\* the response is a page fetched with a status that is not an error
Fetched == entry = "extract_profile_data" /\ response.status = 200

HasPleaseVerify(doc) ==
    \E i \in 1..Len(doc.elems) : \E k \in 1..Len(doc.elems[i].text) :
        doc.elems[i].text[k] \in {"please verify", "Please Verify", "PLEASE VERIFY"}

HasCaptcha(doc) ==
    \E i \in 1..Len(doc.elems) : \E k \in 1..Len(doc.elems[i].text) :
        doc.elems[i].text[k] \in {"captcha", "Captcha", "CAPTCHA"}

NamesPleaseVerify ==
    /\ ret.kind = "raise"
    /\ Str(ret.val) = <<"Access restricted: ", "please verify", " check required">>

\* C10 as claimed: a fetched page whose text contains 'please verify' in any
\* case ends in the access-restricted failure naming 'please verify',
\* whatever else the page contains.
C10_PleaseVerifyAlways ==
    (ExtractDone /\ Fetched /\ HasPleaseVerify(response.doc)) => NamesPleaseVerify

\* C10 as amended: so it does when the body has at least 1000 characters and
\* the text does not also contain 'captcha', even if field selectors match.
C10_PleaseVerifyLongNoCaptcha ==
    (/\ ExtractDone
     /\ Fetched
     /\ HasPleaseVerify(response.doc)
     /\ response.doc.len >= 1000
     /\ ~HasCaptcha(response.doc)) => NamesPleaseVerify

C10_Witness ==
    /\ ExtractDone
    /\ Fetched
    /\ response.doc.len >= 1000
    /\ response.doc.elems = <<[sel |-> "h1.text-heading-xlarge", text |-> <<" ", "Ann", " ">>],
                              [sel |-> "p", text |-> <<"Please Verify">>]>>
    /\ NamesPleaseVerify

\* the page has an element that one of the field selectors finds
HasFieldElement(doc) ==
    \E i \in 1..Len(doc.elems) : doc.elems[i].sel # "p"

\* C11: a fetched document shorter than 1000 characters ends in the
\* invalid-content failure and no record, whichever field selectors match and
\* whatever block-indicator text the page has.
C11_ShortDocumentRejected ==
    (ExtractDone /\ Fetched /\ response.doc.len < 1000) =>
        /\ ret.kind = "raise"
        /\ Str(ret.val) = <<"Invalid response content">>
        /\ staticSteps = 1

C11_Witness ==
    /\ ExtractDone
    /\ Fetched
    /\ response.doc.len = 999
    /\ HasFieldElement(response.doc)
    /\ HasPleaseVerify(response.doc)
    /\ ret.kind = "raise"
    /\ Str(ret.val) = <<"Invalid response content">>

\* the page reached the field extraction: long enough, no block indicator
Extractable(doc) ==
    /\ doc.len >= 1000
    /\ \A i \in 1..Len(DocText(doc)) :
          DocText(doc)[i] \notin {"Please Verify", "CAPTCHA", "please verify", "captcha",
                                  "interrupted", "unavailable"}

\* the items that have both sub-elements, as '<role> at <company>', in
\* document order
RECURSIVE ExpectedExperience(_)
ExpectedExperience(items) ==
    IF items = <<>> THEN <<>>
    ELSE (IF Head(items).first.found /\ Head(items).second.found
          THEN << Strip(Head(items).first.text) \o <<" at ">> \o
                  Strip(Head(items).second.text) >>
          ELSE <<>>) \o ExpectedExperience(Tail(items))

\* C12: for a page with an experience section, the record that
\* extract_profile_data returns has in `experience` exactly the items with
\* both a role and a company sub-element, as '<role> at <company>', in
\* document order.
C12_ExperienceNeedsBoth ==
    (/\ ExtractDone
     /\ Fetched
     /\ Extractable(response.doc)
     /\ response.doc.exp.found
     /\ ExpectedExperience(response.doc.exp.items) # <<>>) =>
        /\ ret.kind = "return"
        /\ Has(ret.val, "experience")
        /\ ret.val["experience"] = ExpectedExperience(response.doc.exp.items)

\* the candidate selectors of a scalar field, in priority order
Candidates(f) ==
    CASE f = "name" -> <<"h1.text-heading-xlarge", "h1.top-card-layout__title",
                         "h1.basic-info__name">>
      [] f = "headline" -> <<"div.text-body-medium", "h2.top-card-layout__headline",
                             "div.basic-info__headline">>
      [] f = "about" -> <<"div.about-section", "div.summary-section">>

\* the first element in document order that the selector finds
RECURSIVE FirstOf(_, _)
FirstOf(elems, sel) ==
    IF elems = <<>> THEN Missing
    ELSE IF Head(elems).sel = sel THEN Elem(Head(elems).text)
    ELSE FirstOf(Tail(elems), sel)

\* the trimmed text of the first candidate, in priority order, that yields a
\* non-empty match
RECURSIVE PriorityValue(_, _, _)
PriorityValue(elems, cands, i) ==
    IF i > Len(cands) THEN Missing
    ELSE LET e == FirstOf(elems, cands[i])
         IN IF e.found /\ Strip(e.text) # <<>>
            THEN Elem(Strip(e.text))
            ELSE PriorityValue(elems, cands, i + 1)

\* field f of the returned record is what the priority rule gives
ByPriority(f) ==
    LET v == PriorityValue(response.doc.elems, Candidates(f), 1)
    IN IF v.found
       THEN Has(ret.val, f) /\ ret.val[f] = v.text
       ELSE ~Has(ret.val, f)

\* C13: in the record the static extractor returns, each of name, headline,
\* about is the trimmed text of the first selector of its candidate list, in
\* priority order and not in document order, that yields a non-empty match.
C13_FirstCandidateWins ==
    (ExtractDone /\ Fetched /\ ret.kind = "return") =>
        \A f \in {"name", "headline", "about"} : ByPriority(f)

\* no selector of any field produces a value: no name candidate finds an
\* element with text, no headline or about candidate finds an element
NoMatch(doc) ==
    /\ ~PriorityValue(doc.elems, Candidates("name"), 1).found
    /\ \A i \in 1..Len(doc.elems) :
          \A k \in 1..3 : doc.elems[i].sel # Candidates("headline")[k]
    /\ \A i \in 1..Len(doc.elems) :
          \A k \in 1..2 : doc.elems[i].sel # Candidates("about")[k]

FailedToExtract ==
    /\ ret.kind = "raise"
    /\ Str(ret.val) = <<"Failed to extract any profile data">>

\* C14: the static extractor never returns an empty mapping; when no
\* selector of any field produces a value it raises 'Failed to extract any
\* profile data'.
C14_NoEmptyRecord ==
    (ExtractDone /\ Fetched) =>
        /\ ret.kind = "return" => DOMAIN ret.val # {}
        /\ (Extractable(response.doc) /\ NoMatch(response.doc)) => FailedToExtract

C14_Witness ==
    /\ ExtractDone
    /\ Fetched
    /\ Extractable(response.doc)
    /\ NoMatch(response.doc)
    /\ Len(response.doc.elems) = 2
    /\ response.doc.elems[1].sel = "h1.text-heading-xlarge"
    /\ FailedToExtract

\* C15: every field present in a record returned by the static extractor or
\* by the browser-driven extractor has a non-empty value: a scalar is a
\* non-empty string after trimming, a list is a non-empty list.
C15_PresentFieldsNonEmpty ==
    ((ExtractDone \/ SelReturned) /\ ret.kind = "return") =>
        \A f \in DOMAIN ret.val : ret.val[f] # <<>>

====
